---- MODULE Spec2Model ----
(***************************************************************************)
(* Model of file_handle.FileHandle: directory creation and removal, file   *)
(* backup, path validation and copy-based transfer over a filesystem.      *)
(*                                                                         *)
(* The filesystem is a map from the paths that exist to their entries.  A  *)
(* path is a sequence of names below a root directory that always exists   *)
(* (the empty path); a name is a sequence of characters, so that           *)
(* pathlib's with_suffix is computed on characters.  Every static method   *)
(* of FileHandle is one action; the action records the call, its outcome   *)
(* and the filesystem before the call.                                     *)
(***************************************************************************)
EXTENDS Naturals, Sequences, FiniteSets, TLC

\* ---------------------------------------------------------------- bounds
\* Longest path (in components) a caller passes to an operation.
MaxDepth == 2
\* Most entries the filesystem holds; a call that would exceed it is not made.
MaxEntries == 4

\* ----------------------------------------------------------------- names
\* A name with an extension and the name its backup gets; either may name a
\* file or a directory.
NameTxt == <<"a", ".", "t">>
NameBak == <<"a", ".", "b", "a", "k">>
Names == {NameTxt, NameBak}

\* The paths callers pass: 1..MaxDepth components.
RECURSIVE PathsOfLen(_)
PathsOfLen(n) ==
    IF n = 0 THEN {<<>>}
    ELSE {Append(p, c) : p \in PathsOfLen(n - 1), c \in Names}

ArgPaths == UNION {PathsOfLen(n) : n \in 1..MaxDepth}

\* File contents.
Contents == {1, 2}

\* errno values the platform reports when it refuses to create or write:
\* permission denied, read-only filesystem, and one that is neither.
Faults == {"none", "EACCES", "EROFS", "ENOSPC"}

\* Copy strategies a caller injects: FileHandle.copy (the default) and a
\* test double that returns without touching the filesystem.
CopyFuncs == {"copy", "stub"}

\* ------------------------------------------------------------ filesystem
DirEntry == [kind |-> "dir", data |-> 0]
FileEntry(c) == [kind |-> "file", data |-> c]

Root == <<>>
Parent(p) == SubSeq(p, 1, Len(p) - 1)
BaseName(p) == p[Len(p)]
IsPrefix(p, q) == Len(p) <= Len(q) /\ SubSeq(q, 1, Len(p)) = p

Exists(fs, p) == p = Root \/ p \in DOMAIN fs
IsDir(fs, p) == p = Root \/ (p \in DOMAIN fs /\ fs[p].kind = "dir")
IsFile(fs, p) == p \in DOMAIN fs /\ fs[p].kind = "file"
Children(fs, p) == {q \in DOMAIN fs : Len(q) = Len(p) + 1 /\ Parent(q) = p}

Put(fs, p, e) == [q \in DOMAIN fs \cup {p} |-> IF q = p THEN e ELSE fs[q]]
Drop(fs, p) == [q \in DOMAIN fs \ {p} |-> fs[q]]

\* The part of the filesystem at and beneath p.
SubTree(fs, p) == [q \in {r \in DOMAIN fs : IsPrefix(p, r)} |-> fs[q]]
\* The part of the filesystem neither at nor beneath p.
Outside(fs, p) == [q \in {r \in DOMAIN fs : ~IsPrefix(p, r)} |-> fs[q]]

\* Every entry lies in a directory.
WellFormed(fs) == \A q \in DOMAIN fs : Len(q) >= 1 /\ IsDir(fs, Parent(q))

\* os.mkdir(p): the errno it fails with ("none": created).
OsMkdir(fs, p, fault) ==
    IF ~Exists(fs, Parent(p)) THEN [err |-> "ENOENT", fs |-> fs]
    ELSE IF ~IsDir(fs, Parent(p)) THEN [err |-> "ENOTDIR", fs |-> fs]
    ELSE IF Exists(fs, p) THEN [err |-> "EEXIST", fs |-> fs]
    ELSE IF fault # "none" THEN [err |-> fault, fs |-> fs]
    ELSE [err |-> "none", fs |-> Put(fs, p, DirEntry)]

\* Mutation: mkdir without parents=True; a missing parent is an error.
PathMkdir_NoParents(fs, p, fault) ==
    LET r == OsMkdir(fs, p, fault) IN
    IF r.err = "none" THEN r
    ELSE IF r.err # "ENOENT" /\ IsDir(fs, p) THEN [err |-> "none", fs |-> fs]
    ELSE r

\* pathlib.Path.mkdir(parents=True, exist_ok=True): a missing parent is
\* created first (recursively), an existing directory is not an error.
RECURSIVE PathMkdir(_, _, _)
PathMkdir(fs, p, fault) ==
    LET r == OsMkdir(fs, p, fault) IN
    IF r.err = "none" THEN r
    ELSE IF r.err = "ENOENT" THEN
        IF p = Root THEN r
        ELSE LET up == PathMkdir(fs, Parent(p), fault) IN
             IF up.err # "none" THEN up
             ELSE LET again == OsMkdir(up.fs, p, fault) IN
                  IF again.err # "none" /\ IsDir(up.fs, p)
                  THEN [err |-> "none", fs |-> up.fs]
                  ELSE again
    ELSE IF IsDir(fs, p) THEN [err |-> "none", fs |-> fs]
    ELSE r

\* pathlib.PurePath.with_suffix(".bak") on the last component: the last
\* extension (from the last dot, when that dot is neither the first nor the
\* last character) is replaced, and a name without one gets ".bak" appended.
BakSuffix == <<".", "b", "a", "k">>
Dots(name) == {i \in 1..Len(name) : name[i] = "."}
LastDot(name) == CHOOSE i \in Dots(name) : \A j \in Dots(name) : j <= i
Suffix(name) ==
    IF Dots(name) = {} THEN <<>>
    ELSE LET i == LastDot(name) IN
         IF 1 < i /\ i < Len(name) THEN SubSeq(name, i, Len(name)) ELSE <<>>
WithSuffixBak(p) ==
    LET name == BaseName(p)
        stem == SubSeq(name, 1, Len(name) - Len(Suffix(name)))
    IN Append(Parent(p), stem \o BakSuffix)

\* shutil.copy2(s, d): a directory destination means "into it, under the
\* source's name"; the same file, a missing or directory source and an
\* unwritable target are errors; otherwise the target gets the content.
Copy2(fs, s, d, fault) ==
    LET dst == IF IsDir(fs, d) THEN Append(d, BaseName(s)) ELSE d IN
    IF Exists(fs, s) /\ s = dst THEN [err |-> "SameFile", fs |-> fs]
    ELSE IF ~Exists(fs, s) THEN [err |-> "ENOENT", fs |-> fs]
    ELSE IF IsDir(fs, s) THEN [err |-> "EISDIR", fs |-> fs]
    ELSE IF IsDir(fs, dst) THEN [err |-> "EISDIR", fs |-> fs]
    ELSE IF ~Exists(fs, Parent(dst)) THEN [err |-> "ENOENT", fs |-> fs]
    ELSE IF ~IsDir(fs, Parent(dst)) THEN [err |-> "ENOTDIR", fs |-> fs]
    ELSE IF fault # "none" THEN [err |-> fault, fs |-> fs]
    ELSE [err |-> "none", fs |-> Put(fs, dst, FileEntry(fs[s].data))]

\* ------------------------------------------------------------- outcomes
\* What a call leaves behind: the filesystem, the exception it raised
\* ("none": it returned), the value it returned, and the calls it made on
\* its collaborators, in order.
NoPath == <<>>
Event(ev, a, b, err) == [ev |-> ev, a |-> a, b |-> b, err |-> err]
Returned(fs, ret, retPath, trace) ==
    [fs |-> fs, raised |-> "none", ret |-> ret, retPath |-> retPath, trace |-> trace]
Raised(fs, exc, trace) ==
    [fs |-> fs, raised |-> exc, ret |-> "None", retPath |-> NoPath, trace |-> trace]

\* ------------------------------------------------------------ FileHandle
\* FileHandle.make_directory
MakeDirectory(fs, p, fault) ==
    LET r == PathMkdir(fs, p, fault)
        t == <<Event("mkdir", p, NoPath, r.err)>>
    IN IF r.err = "none" THEN Returned(r.fs, "True", NoPath, t)
       ELSE IF r.err # "EACCES" THEN Raised(r.fs, "PermissionDeniedError", t)
       ELSE IF r.err = "EROFS" THEN Raised(r.fs, "ReadOnlyError", t)
       ELSE Returned(r.fs, "None", NoPath, t)

\* path.rmdir(): the errno it fails with.
OsRmdir(fs, p) ==
    IF ~Exists(fs, p) THEN [err |-> "ENOENT", fs |-> fs]
    ELSE IF ~IsDir(fs, p) THEN [err |-> "ENOTDIR", fs |-> fs]
    ELSE IF Children(fs, p) # {} THEN [err |-> "ENOTEMPTY", fs |-> fs]
    ELSE [err |-> "none", fs |-> Drop(fs, p)]

\* Mutation: the loop unlinks the files and leaves the subdirectories.
RemoveChildren_FilesOnly(fs, todo) ==
    Returned([q \in DOMAIN fs \ {c \in todo : IsFile(fs, c)} |-> fs[q]],
             "None", NoPath, <<>>)

\* FileHandle.remove_directory; RemoveChildren is its loop over
\* path.iterdir(), todo being the children not yet visited.
RECURSIVE RemoveDirectory(_, _)
RECURSIVE RemoveChildren(_, _)
RemoveChildren(fs, todo) ==
    IF todo = {} THEN Returned(fs, "None", NoPath, <<>>)
    ELSE LET child == CHOOSE c \in todo : TRUE IN
         IF IsFile(fs, child)
         THEN RemoveChildren(Drop(fs, child), todo \ {child})
         ELSE LET sub == RemoveDirectory(fs, child) IN
              IF sub.raised # "none" THEN sub
              ELSE RemoveChildren(sub.fs, todo \ {child})

RemoveDirectory(fs, p) ==
    LET r == OsRmdir(fs, p) IN
    IF r.err = "none" THEN Returned(r.fs, "True", NoPath, <<>>)
    ELSE IF r.err # "ENOTEMPTY"
    THEN Raised(fs, "OSError", <<Event("rmdir", p, NoPath, r.err)>>)
    ELSE LET kids == RemoveChildren(fs, Children(fs, p)) IN
         IF kids.raised # "none" THEN kids
         ELSE LET last == OsRmdir(kids.fs, p) IN
              IF last.err = "none" THEN Returned(last.fs, "True", NoPath, <<>>)
              ELSE Raised(kids.fs, "OSError",
                          <<Event("rmdir", p, NoPath, last.err)>>)

\* Mutation: source and destination swapped in the call of copy2.
Copy_Swapped(fs, s, d, fault) ==
    LET r == Copy2(fs, d, s, fault)
        t == <<Event("copy2", d, s, r.err)>>
    IN IF r.err = "none" THEN Returned(r.fs, "True", NoPath, t)
       ELSE Raised(r.fs, "OSError", t)

\* FileHandle.copy
Copy(fs, s, d, fault) ==
    LET r == Copy2(fs, s, d, fault)
        t == <<Event("copy2", s, d, r.err)>>
    IN IF r.err = "none" THEN Returned(r.fs, "True", NoPath, t)
       ELSE Raised(r.fs, "OSError", t)

\* Mutation: the backup is copied over the file instead of the reverse.
CreateBackup_Reversed(fs, p, fault) ==
    LET backup_path == WithSuffixBak(p)
        c == Copy(fs, backup_path, p, fault)
    IN IF c.raised = "none" THEN Returned(c.fs, "Path", backup_path, c.trace)
       ELSE Raised(c.fs, c.raised, c.trace)

\* FileHandle.create_backup
CreateBackup(fs, p, fault) ==
    LET backup_path == WithSuffixBak(p)
        c == Copy(fs, p, backup_path, fault)
    IN IF c.raised = "none" THEN Returned(c.fs, "Path", backup_path, c.trace)
       ELSE Raised(c.fs, c.raised, c.trace)

\* Mutation: the destination is checked before the source.
ValidatePaths_DestinationFirst(fs, source, destination) ==
    IF ~Exists(fs, destination) THEN "DestinationNotValidError"
    ELSE IF ~Exists(fs, source) THEN "SourceNotValidError"
    ELSE "none"

\* FileHandle.validate_paths: the exception it raises ("none": it returns).
ValidatePaths(fs, source, destination) ==
    IF ~Exists(fs, source) THEN "SourceNotValidError"
    ELSE IF ~Exists(fs, destination) THEN "DestinationNotValidError"
    ELSE "none"

\* The call copy_func(source, destination) of an injected strategy.
CallCopyFunc(copy_func, fs, s, d, fault) ==
    LET r == IF copy_func = "copy" THEN Copy(fs, s, d, fault)
             ELSE Returned(fs, "True", NoPath, <<>>)
    IN [r EXCEPT !.trace = <<Event("copy_func", s, d, r.raised)>> \o r.trace]

\* Mutation: an invalid source is handled like an invalid destination.
Transfer_SourceUnchecked(fs, source, destination, copy_func, fault) ==
    LET v == ValidatePaths(fs, source, destination)
        tv == <<Event("validate_paths", source, destination, v)>>
    IN IF v # "none" THEN
           LET m == MakeDirectory(fs, destination, fault)
               tm == tv \o <<Event("make_directory", destination, NoPath, m.raised)>>
                        \o m.trace
           IN IF m.raised \in {"PermissionDeniedError", "ReadOnlyError"}
              THEN Raised(m.fs, "DestinationNotValidError", tm)
              ELSE LET c == CallCopyFunc(copy_func, m.fs, source, destination, fault)
                   IN [c EXCEPT !.ret = "None", !.trace = tm \o c.trace]
       ELSE LET c == CallCopyFunc(copy_func, fs, source, destination, fault)
            IN [c EXCEPT !.ret = "None", !.trace = tv \o c.trace]

\* Mutation: a missing destination is not created; the copy goes ahead.
Transfer_NoAutoCreate(fs, source, destination, copy_func, fault) ==
    LET v == ValidatePaths(fs, source, destination)
        tv == <<Event("validate_paths", source, destination, v)>>
    IN IF v = "SourceNotValidError" THEN Raised(fs, "SourceNotValidError", tv)
       ELSE LET c == CallCopyFunc(copy_func, fs, source, destination, fault)
            IN [c EXCEPT !.ret = "None", !.trace = tv \o c.trace]

\* FileHandle.transfer
Transfer(fs, source, destination, copy_func, fault) ==
    LET v == ValidatePaths(fs, source, destination)
        tv == <<Event("validate_paths", source, destination, v)>>
    IN IF v = "SourceNotValidError" THEN Raised(fs, "SourceNotValidError", tv)
       ELSE IF v = "DestinationNotValidError" THEN
           LET m == MakeDirectory(fs, destination, fault)
               tm == tv \o <<Event("make_directory", destination, NoPath, m.raised)>>
                        \o m.trace
           IN IF m.raised \in {"PermissionDeniedError", "ReadOnlyError"}
              THEN Raised(m.fs, "DestinationNotValidError", tm)
              ELSE LET c == CallCopyFunc(copy_func, m.fs, source, destination, fault)
                   IN [c EXCEPT !.ret = "None", !.trace = tm \o c.trace]
       ELSE LET c == CallCopyFunc(copy_func, fs, source, destination, fault)
            IN [c EXCEPT !.ret = "None", !.trace = tv \o c.trace]

\* FileHandle.upload
Upload(fs, source, destination, copy_func, fault) ==
    LET t == Transfer(fs, source, destination, copy_func, fault) IN
    IF t.raised = "none" THEN [t EXCEPT !.ret = "True"] ELSE t

\* Mutation: download transfers in the opposite direction.
Download_Reversed(fs, source, destination, copy_func, fault) ==
    LET t == Transfer(fs, destination, source, copy_func, fault) IN
    IF t.raised = "none" THEN [t EXCEPT !.ret = "True"] ELSE t

\* FileHandle.download
Download(fs, source, destination, copy_func, fault) ==
    LET t == Transfer(fs, source, destination, copy_func, fault) IN
    IF t.raised = "none" THEN [t EXCEPT !.ret = "True"] ELSE t

\* ----------------------------------------------------------------- state
VARIABLES
    fs,    \* the filesystem
    pre,   \* the filesystem before the last call
    last   \* the call just made: operation, arguments, the platform's
           \* disposition (fault) during it, and its outcome

vars == <<fs, pre, last>>

Call(op, s, d, copy_func, fault, r) ==
    [op |-> op, s |-> s, d |-> d, copy_func |-> copy_func, fault |-> fault,
     raised |-> r.raised, ret |-> r.ret, retPath |-> r.retPath, trace |-> r.trace]

\* The filesystems a run starts from: an empty directory, the layout the
\* tests set up (a file, and a directory holding a file), and a directory
\* tree with a non-empty subdirectory.
EmptyFs == [q \in {} |-> DirEntry]
FixtureFs ==
    Put(Put(Put(EmptyFs, <<NameTxt>>, FileEntry(1)),
            <<NameBak>>, DirEntry),
        <<NameBak, NameTxt>>, FileEntry(2))
NestedFs ==
    Put(Put(Put(EmptyFs, <<NameTxt>>, DirEntry),
            <<NameTxt, NameTxt>>, DirEntry),
        <<NameTxt, NameTxt, NameTxt>>, FileEntry(2))
InitFs == {EmptyFs, FixtureFs, NestedFs}

\* No call is in progress and nothing of a finished call is kept: the
\* methods are static and the class holds no state of its own.
Idle ==
    [op |-> "idle", s |-> NoPath, d |-> NoPath, copy_func |-> "-",
     fault |-> "none",
     raised |-> "none", ret |-> "None", retPath |-> NoPath, trace |-> <<>>]

Init ==
    /\ fs \in InitFs
    /\ pre = fs
    /\ last = Idle

Fits(f) == Cardinality(DOMAIN f) <= MaxEntries

Step(op, s, d, copy_func, fault, r) ==
    /\ Fits(r.fs)
    /\ fs' = r.fs
    /\ pre' = fs
    /\ last' = Call(op, s, d, copy_func, fault, r)

DoMakeDirectory ==
    /\ last.op = "idle"
    /\ \E p \in ArgPaths, fault \in Faults :
        Step("make_directory", p, NoPath, "-", fault, MakeDirectory(fs, p, fault))

DoRemoveDirectory ==
    /\ last.op = "idle"
    /\ \E p \in ArgPaths :
        Step("remove_directory", p, NoPath, "-", "none", RemoveDirectory(fs, p))

DoCreateBackup ==
    /\ last.op = "idle"
    /\ \E p \in ArgPaths, fault \in Faults :
        Step("create_backup", p, NoPath, "-", fault, CreateBackup(fs, p, fault))

DoValidatePaths ==
    /\ last.op = "idle"
    /\ \E s \in ArgPaths, d \in ArgPaths :
        LET v == ValidatePaths(fs, s, d) IN
        Step("validate_paths", s, d, "-", "none",
             IF v = "none" THEN Returned(fs, "None", NoPath, <<>>)
             ELSE Raised(fs, v, <<>>))

DoCopy ==
    /\ last.op = "idle"
    /\ \E s \in ArgPaths, d \in ArgPaths, fault \in Faults :
        Step("copy", s, d, "-", fault, Copy(fs, s, d, fault))

DoTransfer ==
    /\ last.op = "idle"
    /\ \E s \in ArgPaths, d \in ArgPaths, cf \in CopyFuncs, fault \in Faults :
        Step("transfer", s, d, cf, fault, Transfer(fs, s, d, cf, fault))

DoUpload ==
    /\ last.op = "idle"
    /\ \E s \in ArgPaths, d \in ArgPaths, cf \in CopyFuncs, fault \in Faults :
        Step("upload", s, d, cf, fault, Upload(fs, s, d, cf, fault))

DoDownload ==
    /\ last.op = "idle"
    /\ \E s \in ArgPaths, d \in ArgPaths, cf \in CopyFuncs, fault \in Faults :
        Step("download", s, d, cf, fault, Download(fs, s, d, cf, fault))

\* The call has returned to its caller (or raised into it); the next call
\* starts from the filesystem alone.
Return ==
    /\ last.op # "idle"
    /\ last' = Idle
    /\ pre' = fs
    /\ UNCHANGED fs

Next ==
    \/ DoMakeDirectory
    \/ DoRemoveDirectory
    \/ DoCreateBackup
    \/ DoValidatePaths
    \/ DoCopy
    \/ DoTransfer
    \/ DoUpload
    \/ DoDownload
    \/ Return

Spec == Init /\ [][Next]_vars

\* The model keeps the filesystem a tree.
TypeOK == WellFormed(fs) /\ WellFormed(pre)

\* ---------------------------------------------------------------- claims
TransferOps == {"transfer", "upload", "download"}
\* The positions in the last call's trace of the events of one kind.
EventsOf(ev) == {i \in 1..Len(last.trace) : last.trace[i].ev = ev}
\* The errno values the underlying directory creation ended with.
MkdirErrs == {last.trace[i].err : i \in EventsOf("mkdir")}
Prefixes(p) == {SubSeq(p, 1, k) : k \in 1..Len(p)}
\* The platform lets p be created: nothing refuses the creation and no file
\* stands where a directory is needed.
CreationPermitted(f, p, fault) ==
    fault = "none" /\ \A q \in Prefixes(p) : ~IsFile(f, q)

\* C1: a transfer whose destination is missing and whose creation of it is
\* refused (permission denied or read-only filesystem) fails with
\* DestinationNotValidError and never calls copy_func.
C1_RefusedCreationIsDestinationNotValid ==
    (/\ last.op \in TransferOps
     /\ Exists(pre, last.s)
     /\ ~Exists(pre, last.d)
     /\ MkdirErrs \cap {"EACCES", "EROFS"} # {})
    => /\ last.raised = "DestinationNotValidError"
       /\ EventsOf("copy_func") = {}

\* C2: make_directory turns EACCES into PermissionDeniedError, EROFS into
\* ReadOnlyError and lets any other errno through as the raw OSError; a
\* failed creation never ends in a normal return.
C2_MakeDirectoryClassifies ==
    (last.op = "make_directory" /\ MkdirErrs # {"none"})
    => /\ last.raised # "none"
       /\ "EACCES" \in MkdirErrs => last.raised = "PermissionDeniedError"
       /\ "EROFS" \in MkdirErrs => last.raised = "ReadOnlyError"
       /\ MkdirErrs \cap {"EACCES", "EROFS"} = {} => last.raised = "OSError"

C4_MissingSourceAborts ==
    (last.op \in TransferOps /\ ~Exists(pre, last.s))
    => /\ last.raised = "SourceNotValidError"
       /\ EventsOf("copy_func") = {}
       /\ EventsOf("make_directory") = {}
       /\ EventsOf("mkdir") = {}
       /\ fs = pre

\* An upload with the source and the destination both missing.
C4_Witness ==
    /\ last.op = "upload"
    /\ ~Exists(pre, last.s)
    /\ ~Exists(pre, last.d)
    /\ last.raised = "SourceNotValidError"

\* C5: a transfer with an existing source and a missing destination that
\* may be created makes the destination a directory first, then calls
\* copy_func exactly once, with (source, destination), and returns when
\* copy_func does.
C5_AutoCreateThenCopy ==
    (/\ last.op \in TransferOps
     /\ Exists(pre, last.s)
     /\ ~Exists(pre, last.d)
     /\ CreationPermitted(pre, last.d, last.fault))
    => /\ Cardinality(EventsOf("make_directory")) = 1
       /\ Cardinality(EventsOf("copy_func")) = 1
       /\ MkdirErrs = {"none"}
       /\ IsDir(fs, last.d)
       /\ \A q \in DOMAIN pre : q \in DOMAIN fs
       /\ \A i \in EventsOf("make_directory") : \A j \in EventsOf("copy_func") :
            /\ i < j
            /\ last.trace[i].a = last.d
            /\ last.trace[j].a = last.s
            /\ last.trace[j].b = last.d
            /\ last.trace[j].err = "none"
                  => /\ last.raised = "none"
                     /\ last.ret = IF last.op = "transfer" THEN "None" ELSE "True"

\* A file was transferred into a destination created with its parent.
C5_Witness ==
    /\ last.op = "transfer"
    /\ IsFile(pre, last.s)
    /\ ~Exists(pre, Parent(last.d))
    /\ last.raised = "none"
    /\ IsDir(fs, last.d)
    /\ IsFile(fs, Append(last.d, BaseName(last.s)))

C7_RemoveDirectoryRemovesTree ==
    (last.op = "remove_directory" /\ IsDir(pre, last.s))
    => /\ last.raised = "none"
       /\ last.ret = "True"
       /\ ~Exists(fs, last.s)
       /\ fs = Outside(pre, last.s)

\* The removed directory held a non-empty subdirectory.
C7_Witness ==
    /\ last.op = "remove_directory"
    /\ last.raised = "none"
    /\ \E q \in DOMAIN pre :
          /\ IsPrefix(last.s, q)
          /\ Len(q) >= Len(last.s) + 2
    /\ ~Exists(fs, last.s)

\* C8: an upload ends as a download of the same arguments from the same
\* filesystem would, and a download as the upload would: same exception or
\* return value, same calls in the same order, same filesystem.
Outcome(r) ==
    [fs |-> r.fs, raised |-> r.raised, ret |-> r.ret, trace |-> r.trace]
LastOutcome ==
    [fs |-> fs, raised |-> last.raised, ret |-> last.ret, trace |-> last.trace]
C8_UploadDownloadAgree ==
    /\ last.op = "upload"
          => LastOutcome = Outcome(Download(pre, last.s, last.d,
                                            last.copy_func, last.fault))
    /\ last.op = "download"
          => LastOutcome = Outcome(Upload(pre, last.s, last.d,
                                          last.copy_func, last.fault))

\* An upload that created its destination and copied a file into it.
C8_Witness ==
    /\ last.op = "upload"
    /\ last.raised = "none"
    /\ ~Exists(pre, last.d)
    /\ IsFile(fs, Append(last.d, BaseName(last.s)))

\* C9: make_directory on a path that may be created, or that is a directory
\* already, returns True; afterwards the path and its ancestors are
\* directories, nothing else was added and no earlier entry changed; on an
\* existing directory nothing changes, and a second call changes nothing.
C9_MakeDirectoryCreatesChain ==
    (/\ last.op = "make_directory"
     /\ (CreationPermitted(pre, last.s, last.fault) \/ IsDir(pre, last.s)))
    => /\ last.raised = "none"
       /\ last.ret = "True"
       /\ \A q \in Prefixes(last.s) : IsDir(fs, q)
       /\ DOMAIN fs = DOMAIN pre \cup Prefixes(last.s)
       /\ \A q \in DOMAIN pre : fs[q] = pre[q]
       /\ IsDir(pre, last.s) => fs = pre
       /\ LET again == MakeDirectory(fs, last.s, last.fault) IN
            /\ again.fs = fs
            /\ again.raised = "none"
            /\ again.ret = "True"

\* The directory was created together with its missing parent.
C9_Witness ==
    /\ last.op = "make_directory"
    /\ Len(last.s) >= 2
    /\ ~Exists(pre, Parent(last.s))
    /\ last.ret = "True"
    /\ IsDir(fs, last.s)

\* The path create_backup is to produce for p: p with the extension of
\* its last component replaced by .bak.
ExpectedBackup(p) == Append(Parent(p), NameBak)

====
